---- MODULE Spec2Model ----
(***************************************************************************)
(* TS map estimation (gammapy/estimators/ts_map.py): the per-pixel cutout  *)
(* dataset, the single parameter Brent flux estimator and the map scan of  *)
(* TSMapEstimator.run.                                                     *)
(*                                                                         *)
(* Numbers.  A float is an integer on a fixed-point grid, or one of the    *)
(* two special values NaN and Inf.  Norms are counted in units of          *)
(* 1/NormScale, fit statistics in units of 1/StatScale.  Counts,           *)
(* background and model amplitudes are whole numbers.                      *)
(***************************************************************************)
EXTENDS Integers, Sequences, FiniteSets, TLC

VARIABLES
    dataset,      \* SimpleMapDataset handed to BrentqFluxEstimator.run
    est,          \* BrentqFluxEstimator fields (TSMapEstimator._flux_estimator)
    oracle,       \* brentq calls that stop at the iteration limit
    fit,          \* FitResult returned by BrentqFluxEstimator.run
    calls,        \* methods and brentq calls executed by the last run, in order
    fpc,          \* position of the caller of BrentqFluxEstimator.run
    tsm,          \* TSMapEstimator fields
    mapds,        \* MapDataset handed to TSMapEstimator.run
    pc,           \* position of TSMapEstimator.run
    loc,          \* locals of TSMapEstimator.run: kernel, mask, flux, positions
    results,      \* results of the map over the positions
    pool,         \* multiprocessing.Pool of the run
    out,          \* dict of maps returned by TSMapEstimator.run
    err           \* exception raised by TSMapEstimator.run

fitVars == <<dataset, oracle, fit, calls, fpc>>

fitVarsIdle == <<dataset, fit, calls, fpc>>

scanVars == <<tsm, mapds, pc, loc, results, pool, out, err>>

vars == <<dataset, est, oracle, fit, calls, fpc,
          tsm, mapds, pc, loc, results, pool, out, err>>

-----------------------------------------------------------------------------
(* Bounds of the model *)

MaxCount == 2        \* counts per bin: 0..MaxCount
MaxBkg == 1          \* background per bin: 0..MaxBkg
MaxModel == 1        \* model amplitude of the bin of the source position: 1..MaxModel
MaxGuess == 1        \* flux seed: -MaxGuess..MaxGuess (units of flux_ref / 2)

-----------------------------------------------------------------------------
(* Floats *)

\* NaN and inf are two whole numbers outside the range of every finite value;
\* no arithmetic is done on NaN
NaN == -2000000000
Inf == 1000000000

NormScale == 2 * 2 * 2 * 2
StatScale == 10 * 10 * 10
DerivScale == 10 * 10 * 10 * 10
SqrtScale == 10 * 10

IsNaN(x) == x = NaN
IsFinite(x) == x # NaN /\ x # Inf /\ x # -Inf

Abs(x) == IF IsNaN(x) THEN NaN ELSE IF x < 0 THEN -x ELSE x
Max(a, b) == IF a >= b THEN a ELSE b
Min(a, b) == IF a <= b THEN a ELSE b

\* np.sign
Sign(x) == IF IsNaN(x) THEN NaN ELSE IF x > 0 THEN 1 ELSE IF x < 0 THEN -1 ELSE 0

\* a / b rounded to the next grid point towards +inf and -inf (b > 0)
CeilDiv(a, b) == -((-a) \div b)
FloorDiv(a, b) == a \div b
\* a / b rounded to the nearest grid point away from zero: keeps the sign
RoundAway(a, b) == IF a >= 0 THEN CeilDiv(a, b) ELSE FloorDiv(a, b)

FAdd(a, b) ==
    IF IsNaN(a) \/ IsNaN(b) THEN NaN
    ELSE IF a = Inf THEN (IF b = -Inf THEN NaN ELSE Inf)
    ELSE IF a = -Inf THEN (IF b = Inf THEN NaN ELSE -Inf)
    ELSE IF b = Inf \/ b = -Inf THEN b
    ELSE a + b

FNeg(a) == IF IsNaN(a) THEN NaN ELSE -a

FSub(a, b) == FAdd(a, FNeg(b))

\* product of a float and a whole number k
FScale(a, k) ==
    IF IsNaN(a) THEN NaN
    ELSE IF a = Inf \/ a = -Inf THEN (IF k = 0 THEN NaN ELSE IF k > 0 THEN a ELSE -a)
    ELSE a * k

\* a < b, a > b as numpy compares: False when either side is NaN
FLess(a, b) == ~IsNaN(a) /\ ~IsNaN(b) /\ a < b
FGreater(a, b) == FLess(b, a)

RECURSIVE ISqrt(_)
\* largest r with r * r <= n
ISqrt(n) ==
    IF n < 2 THEN n
    ELSE LET r == 2 * ISqrt(n \div 4)
         IN IF (r + 1) * (r + 1) <= n THEN r + 1 ELSE r

\* ln(k) * StatScale for k = 1..32
LnTable == <<0, 693, 1099, 1386, 1609, 1792, 1946, 2079,
             2197, 2303, 2398, 2485, 2565, 2639, 2708, 2773,
             2833, 2890, 2944, 2996, 3045, 3091, 3135, 3178,
             3219, 3258, 3296, 3332, 3367, 3401, 3434, 3466>>

RECURSIVE Ln(_)
\* ln(k) * StatScale of a whole number k >= 1, to five mantissa bits
Ln(k) == IF k <= Len(LnTable) THEN LnTable[k] ELSE LnTable[2] + Ln(k \div 2)

\* log(TRUNCATION_VALUE) * StatScale, TRUNCATION_VALUE = 1e-25
LogTrunc == -57565

Range(f) == {f[i] : i \in DOMAIN f}

RECURSIVE SumSeq(_)
SumSeq(s) == IF s = <<>> THEN 0 ELSE Head(s) + SumSeq(Tail(s))

-----------------------------------------------------------------------------
(* gammapy.stats: cash_sum_cython, f_cash_root_cython, norm_bounds_cython  *)

Bins(ds) == 1..Len(ds.counts)

\* one bin of the Cash sum: npred above the truncation value contributes
\* npred - counts * log(npred), any other npred the truncated value
CashBin(c, npr) ==
    IF IsNaN(npr) \/ npr <= 0
    THEN (IF c > 0 THEN -(c * LogTrunc) ELSE 0)
    ELSE IF npr = Inf
    THEN (IF c > 0 THEN NaN ELSE Inf)
    ELSE (npr * StatScale) \div NormScale
         - (IF c > 0 THEN c * (Ln(npr) - Ln(NormScale)) ELSE 0)

RECURSIVE FSum(_)
FSum(s) == IF s = <<>> THEN 0 ELSE FAdd(Head(s), FSum(Tail(s)))

\* 2 * sum(npred - counts * log(npred)); npred in units of 1/NormScale
cash_sum_cython(counts, npred) ==
    FScale(FSum([i \in 1..Len(counts) |-> CashBin(counts[i], npred[i])]), 2)

\* a / b rounded to the nearest grid point (b > 0)
RoundDiv(a, b) == (2 * a + b) \div (2 * b)

\* 2 * sum(model * (1 - counts / (x * model + background))) over the bins
\* with model > 0, in units of 1/DerivScale; a bin without counts adds its
\* model, a bin with counts and no predicted counts divides by zero
f_cash_root_cython(x, counts, background, model) ==
    IF ~IsFinite(x) THEN NaN
    ELSE LET P(i) == background[i] * NormScale + x * model[i]
             idx == {i \in 1..Len(counts) : model[i] > 0}
             term(i) == IF i \notin idx THEN 0
                        ELSE IF counts[i] > 0
                        THEN (IF P(i) = 0 THEN -Inf
                              ELSE model[i] * DerivScale
                                   - RoundDiv(model[i] * counts[i] * NormScale
                                                  * DerivScale * Sign(P(i)),
                                              Abs(P(i))))
                        ELSE model[i] * DerivScale
         IN FScale(FSum([i \in 1..Len(counts) |-> term(i)]), 2)

\* the bin with the smallest background / model among the bins of idx (the
\* first one of equal ratios)
ArgMinRatio(background, model, idx) ==
    CHOOSE k \in idx :
        \A i \in idx :
            \/ background[k] * model[i] < background[i] * model[k]
            \/ background[k] * model[i] = background[i] * model[k] /\ k <= i

\* <<norm_min, norm_max, norm_min_total>>: the bracket of the root of the
\* derivative and the floor below which some bin predicts negative counts
norm_bounds_cython(counts, background, model) ==
    LET floor(all) ==
            IF all = {} THEN -Inf
            ELSE LET at(kt) == -FloorDiv(background[kt] * NormScale, model[kt])
                 IN at(ArgMinRatio(background, model, all))
        b_min(k, s_model) ==
            CeilDiv(NormScale * (counts[k] * model[k] - background[k] * s_model),
                    s_model * model[k])
        b_max(k, s_model, s_counts) ==
            CeilDiv(NormScale * (s_counts * model[k] - background[k] * s_model),
                    s_model * model[k])
        bounds(all, pos, k, s_model) ==
            IF pos = {} THEN <<-Inf, -Inf, floor(all)>>
            ELSE <<b_min(k, s_model), b_max(k, s_model, SumSeq(counts)), floor(all)>>
        over(all, pos) ==
            bounds(all, pos, ArgMinRatio(background, model, pos), SumSeq(model))
        with(all) == over(all, {i \in all : counts[i] > 0})
    IN with({i \in 1..Len(counts) : model[i] > 0})

-----------------------------------------------------------------------------
(* SimpleMapDataset *)

\* a cached norm_bounds that gives its lower end for both ends of the
\* bracket
norm_bounds_collapsed(ds) ==
    IF "norm_bounds" \in DOMAIN ds
    THEN <<ds.norm_bounds[1], ds.norm_bounds[1], ds.norm_bounds[3]>>
    ELSE norm_bounds_cython(ds.counts, ds.background, ds.model)

\* the lazyproperty norm_bounds: computed at the first read and kept in the
\* instance, read from there afterwards
norm_bounds(ds) ==
    IF "norm_bounds" \in DOMAIN ds THEN ds.norm_bounds
    ELSE norm_bounds_cython(ds.counts, ds.background, ds.model)

\* the dataset after norm_bounds was read
lazyproperty(ds) ==
    [k \in DOMAIN ds \cup {"norm_bounds"} |->
        IF k = "norm_bounds" THEN norm_bounds(ds) ELSE ds[k]]

\* background + norm * model, in units of 1/NormScale
npred(ds, norm) ==
    [i \in Bins(ds) |-> FAdd(ds.background[i] * NormScale, FScale(norm, ds.model[i]))]

stat_sum(ds, norm) == cash_sum_cython(ds.counts, npred(ds, norm))

\* the derivative of the statistic of the source alone
stat_derivative_without_background(ds, norm) ==
    f_cash_root_cython(norm, ds.counts, [i \in Bins(ds) |-> 0], ds.model)

stat_derivative(ds, norm) ==
    f_cash_root_cython(norm, ds.counts, ds.background, ds.model)

\* sum(model^2 * counts / (background + norm * model)^2), in units of
\* 1/DerivScale; 0/0 in a bin is NaN and x/0 is inf
stat_2nd_derivative(ds, norm) ==
    IF IsNaN(norm) THEN NaN
    ELSE IF ~IsFinite(norm) THEN 0
    ELSE LET P(i) == ds.background[i] * NormScale + norm * ds.model[i]
             num(i) == ds.model[i] * ds.model[i] * ds.counts[i]
             term(i) == IF P(i) = 0 THEN (IF num(i) = 0 THEN NaN ELSE Inf)
                        ELSE RoundDiv(num(i) * NormScale * NormScale * DerivScale,
                                      P(i) * P(i))
         IN FSum([i \in Bins(ds) |-> term(i)])

-----------------------------------------------------------------------------
(* scipy.optimize.brentq *)

\* the function handed to brentq: the derivative of the statistic, or
\* ts_diff of _confidence
BrentqF(kind, ctx, x) ==
    IF kind = "derivative" THEN stat_derivative(ctx.ds, x)
    ELSE FSub(FAdd(ctx.stat_best, ctx.n_sigma * ctx.n_sigma * StatScale),
              stat_sum(ctx.ds, x))

RECURSIVE Bisect(_, _, _, _, _, _)
\* narrows [lo, hi], the function having sign slo at lo and -slo at hi, to
\* one grid cell and returns its end of smaller magnitude
Bisect(kind, ctx, lo, hi, slo, k) ==
    LET f(x) == BrentqF(kind, ctx, x)
        narrow(mid, sm) ==
            IF sm = 0 THEN [root |-> mid, iterations |-> k + 1]
            ELSE IF sm = slo THEN Bisect(kind, ctx, mid, hi, slo, k + 1)
            ELSE Bisect(kind, ctx, lo, mid, slo, k + 1)
        half(mid) == narrow(mid, Sign(f(mid)))
        closer(flo, fhi) ==
            [root |-> IF FLess(Abs(fhi), Abs(flo)) THEN hi ELSE lo, iterations |-> k]
    IN IF hi - lo <= 1 THEN closer(f(lo), f(hi)) ELSE half((lo + hi) \div 2)

\* brentq(f, a, b, maxiter): ok is FALSE where scipy raises ValueError (no
\* sign change between a and b, NaN) or RuntimeError (limit: the iteration
\* limit is reached before the tolerance)
brentq(kind, ctx, a, b, maxiter, limit) ==
    LET failed == [ok |-> FALSE, root |-> NaN, iterations |-> maxiter]
        converged(r) ==
            [ok |-> TRUE, root |-> r.root,
             iterations |-> Max(1, Min(r.iterations, maxiter))]
        search(lo, hi, slo) == converged(Bisect(kind, ctx, lo, hi, slo, 0))
        solve(fa, fb, sa, sb) ==
            IF ~IsFinite(a) \/ ~IsFinite(b) \/ IsNaN(fa) \/ IsNaN(fb) THEN failed
            ELSE IF sa * sb > 0 THEN failed
            ELSE IF sa = 0 THEN [ok |-> TRUE, root |-> a, iterations |-> 0]
            ELSE IF sb = 0 THEN [ok |-> TRUE, root |-> b, iterations |-> 0]
            ELSE IF limit THEN failed
            ELSE search(Min(a, b), Max(a, b), IF a < b THEN sa ELSE sb)
        signs(fa, fb) == solve(fa, fb, Sign(fa), Sign(fb))
    IN signs(BrentqF(kind, ctx, a), BrentqF(kind, ctx, b))

-----------------------------------------------------------------------------
(* Estimator.selection_optional and BrentqFluxEstimator *)

_available_selection_optional == {"errn-errp", "ul"}

\* the setter of Estimator.selection_optional; the string "all" is {"all"},
\* None is {}
selection_optional_setter(selection) ==
    IF selection = {"all"} THEN _available_selection_optional ELSE selection

\* the brentq calls of one run, as the trace of a run names them
CallNames == {"brentq_best_fit", "brentq_ul", "brentq_errn", "brentq_errp"}

\* np.sqrt(1 / dataset.stat_2nd_derivative(norm)) * self.n_sigma
NormErr(e, ds, norm) ==
    LET of(d2) ==
            IF IsNaN(d2) \/ d2 < 0 THEN NaN
            ELSE IF d2 = Inf THEN 0
            ELSE IF d2 = 0 THEN Inf
            ELSE FScale(ISqrt((NormScale * NormScale * DerivScale) \div d2), e.n_sigma)
    IN of(stat_2nd_derivative(ds, norm))

\* estimate_best_fit without the branch for a cutout without counts
estimate_best_fit_no_zero_branch(e, ds, orc) ==
    LET result(norm, niter, stat, stat_null) ==
            [ts |-> IF IsNaN(norm) THEN NaN
                    ELSE FScale(FSub(stat_null, stat), Sign(norm)),
             norm |-> norm,
             niter |-> niter,
             norm_err |-> NormErr(e, ds, norm),
             stat |-> stat]
        stats(norm, niter) == result(norm, niter, stat_sum(ds, norm), stat_sum(ds, 0))
        fitted(result_fit, norm_min_total) ==
            stats(IF result_fit.ok THEN Max(result_fit.root, norm_min_total) ELSE NaN,
                  IF result_fit.ok THEN result_fit.iterations ELSE e.max_niter)
        bounded(b) ==
            fitted(brentq("derivative", [ds |-> ds], b[1], b[2], e.max_niter,
                          "brentq_best_fit" \in orc),
                   b[3])
    IN [result |-> bounded(norm_bounds(ds)),
        calls |-> <<"estimate_best_fit", "brentq_best_fit">>]

\* estimate_best_fit without the except clause: a failed root finding
\* leaves the floor as norm and the iterations of brentq as niter
estimate_best_fit_failure_unhandled(e, ds, orc) ==
    LET zero == ~(SumSeq(ds.counts) > 0)
        result(norm, niter, stat, stat_null) ==
            [ts |-> IF IsNaN(norm) THEN NaN
                    ELSE FScale(FSub(stat_null, stat), Sign(norm)),
             norm |-> norm,
             niter |-> niter,
             norm_err |-> NormErr(e, ds, norm),
             stat |-> stat]
        stats(norm, niter) == result(norm, niter, stat_sum(ds, norm), stat_sum(ds, 0))
        fitted(result_fit, norm_min_total) ==
            stats(IF zero THEN norm_min_total
                  ELSE IF result_fit.ok THEN Max(result_fit.root, norm_min_total)
                  ELSE norm_min_total,
                  IF zero THEN 0
                  ELSE IF result_fit.ok THEN result_fit.iterations
                  ELSE 0)
        bounded(b) ==
            fitted(brentq("derivative", [ds |-> ds], b[1], b[2], e.max_niter,
                          "brentq_best_fit" \in orc),
                   b[3])
    IN [result |-> bounded(norm_bounds(ds)),
        calls |-> <<"estimate_best_fit">>
                  \o (IF zero THEN <<>> ELSE <<"brentq_best_fit">>)]

\* estimate_best_fit that returns the root of brentq as it is
estimate_best_fit_unclamped(e, ds, orc) ==
    LET zero == ~(SumSeq(ds.counts) > 0)
        result(norm, niter, stat, stat_null) ==
            [ts |-> IF IsNaN(norm) THEN NaN
                    ELSE FScale(FSub(stat_null, stat), Sign(norm)),
             norm |-> norm,
             niter |-> niter,
             norm_err |-> NormErr(e, ds, norm),
             stat |-> stat]
        stats(norm, niter) == result(norm, niter, stat_sum(ds, norm), stat_sum(ds, 0))
        fitted(result_fit, norm_min_total) ==
            stats(IF zero THEN norm_min_total
                  ELSE IF result_fit.ok THEN result_fit.root
                  ELSE NaN,
                  IF zero THEN 0
                  ELSE IF result_fit.ok THEN result_fit.iterations
                  ELSE e.max_niter)
        bounded(b) ==
            fitted(brentq("derivative", [ds |-> ds], b[1], b[2], e.max_niter,
                          "brentq_best_fit" \in orc),
                   b[3])
    IN [result |-> bounded(norm_bounds(ds)),
        calls |-> <<"estimate_best_fit">>
                  \o (IF zero THEN <<>> ELSE <<"brentq_best_fit">>)]

\* estimate_best_fit with ts = stat_null - stat
estimate_best_fit_unsigned(e, ds, orc) ==
    LET zero == ~(SumSeq(ds.counts) > 0)
        result(norm, niter, stat, stat_null) ==
            [ts |-> IF IsNaN(norm) THEN NaN
                    ELSE FSub(stat_null, stat),
             norm |-> norm,
             niter |-> niter,
             norm_err |-> NormErr(e, ds, norm),
             stat |-> stat]
        stats(norm, niter) == result(norm, niter, stat_sum(ds, norm), stat_sum(ds, 0))
        fitted(result_fit, norm_min_total) ==
            stats(IF zero THEN norm_min_total
                  ELSE IF result_fit.ok THEN Max(result_fit.root, norm_min_total)
                  ELSE NaN,
                  IF zero THEN 0
                  ELSE IF result_fit.ok THEN result_fit.iterations
                  ELSE e.max_niter)
        bounded(b) ==
            fitted(brentq("derivative", [ds |-> ds], b[1], b[2], e.max_niter,
                          "brentq_best_fit" \in orc),
                   b[3])
    IN [result |-> bounded(norm_bounds(ds)),
        calls |-> <<"estimate_best_fit">>
                  \o (IF zero THEN <<>> ELSE <<"brentq_best_fit">>)]

\* the result dict, and the trace of the call
estimate_best_fit(e, ds, orc) ==
    LET zero == ~(SumSeq(ds.counts) > 0)
        result(norm, niter, stat, stat_null) ==
            [ts |-> IF IsNaN(norm) THEN NaN
                    ELSE FScale(FSub(stat_null, stat), Sign(norm)),
             norm |-> norm,
             niter |-> niter,
             norm_err |-> NormErr(e, ds, norm),
             stat |-> stat]
        stats(norm, niter) == result(norm, niter, stat_sum(ds, norm), stat_sum(ds, 0))
        fitted(result_fit, norm_min_total) ==
            stats(IF zero THEN norm_min_total
                  ELSE IF result_fit.ok THEN Max(result_fit.root, norm_min_total)
                  ELSE NaN,
                  IF zero THEN 0
                  ELSE IF result_fit.ok THEN result_fit.iterations
                  ELSE e.max_niter)
        bounded(b) ==
            fitted(brentq("derivative", [ds |-> ds], b[1], b[2], e.max_niter,
                          "brentq_best_fit" \in orc),
                   b[3])
    IN [result |-> bounded(norm_bounds(ds)),
        calls |-> <<"estimate_best_fit">>
                  \o (IF zero THEN <<>> ELSE <<"brentq_best_fit">>)]

\* nan_result with NaN for niter as well
nan_result_niter_nan(e) ==
    [k \in {"norm", "stat", "norm_err", "ts", "niter"}
           \cup (IF "errn-errp" \in e.selection_optional
                 THEN {"norm_errp", "norm_errn"} ELSE {})
           \cup (IF "ul" \in e.selection_optional THEN {"norm_ul"} ELSE {})
       |-> NaN]

\* nan_result without the keys of the optional steps
nan_result_without_optional(e) ==
    [k \in {"norm", "stat", "norm_err", "ts", "niter"} |-> IF k = "niter" THEN 0 ELSE NaN]

nan_result(e) ==
    [k \in {"norm", "stat", "norm_err", "ts", "niter"}
           \cup (IF "errn-errp" \in e.selection_optional
                 THEN {"norm_errp", "norm_errn"} ELSE {})
           \cup (IF "ul" \in e.selection_optional THEN {"norm_ul"} ELSE {})
       |-> IF k = "niter" THEN 0 ELSE NaN]

\* _confidence without the factor: the signed offset on both sides
_confidence_signed(e, ds, n_sigma, result, positive, limit) ==
    LET stat_best == result["stat"]
        norm == result["norm"]
        norm_err == result["norm_err"]
        min_norm == IF positive THEN norm ELSE FSub(norm, FScale(norm_err, 100))
        max_norm == IF positive THEN FAdd(norm, FScale(norm_err, 100)) ELSE norm
        offset(result_fit) ==
            IF result_fit.ok THEN FSub(result_fit.root, norm) ELSE NaN
    IN offset(brentq("ts_diff",
                     [ds |-> ds, stat_best |-> stat_best, n_sigma |-> n_sigma],
                     min_norm, max_norm, e.max_niter, limit))

\* _confidence that returns 0 where the root finding fails
_confidence_failure_zero(e, ds, n_sigma, result, positive, limit) ==
    LET stat_best == result["stat"]
        norm == result["norm"]
        norm_err == result["norm_err"]
        min_norm == IF positive THEN norm ELSE FSub(norm, FScale(norm_err, 100))
        max_norm == IF positive THEN FAdd(norm, FScale(norm_err, 100)) ELSE norm
        factor == IF positive THEN 1 ELSE -1
        offset(result_fit) ==
            IF result_fit.ok THEN FScale(FSub(result_fit.root, norm), factor) ELSE 0
    IN offset(brentq("ts_diff",
                     [ds |-> ds, stat_best |-> stat_best, n_sigma |-> n_sigma],
                     min_norm, max_norm, e.max_niter, limit))

_confidence(e, ds, n_sigma, result, positive, limit) ==
    LET stat_best == result["stat"]
        norm == result["norm"]
        norm_err == result["norm_err"]
        min_norm == IF positive THEN norm ELSE FSub(norm, FScale(norm_err, 100))
        max_norm == IF positive THEN FAdd(norm, FScale(norm_err, 100)) ELSE norm
        factor == IF positive THEN 1 ELSE -1
        offset(result_fit) ==
            IF result_fit.ok THEN FScale(FSub(result_fit.root, norm), factor) ELSE NaN
    IN offset(brentq("ts_diff",
                     [ds |-> ds, stat_best |-> stat_best, n_sigma |-> n_sigma],
                     min_norm, max_norm, e.max_niter, limit))

estimate_ul(e, ds, result, orc) ==
    [norm_ul |-> _confidence(e, ds, e.n_sigma_ul, result, TRUE, "brentq_ul" \in orc)]

estimate_errn_errp(e, ds, result, orc) ==
    [norm_errn |-> _confidence(e, ds, e.n_sigma, result, FALSE, "brentq_errn" \in orc),
     norm_errp |-> _confidence(e, ds, e.n_sigma, result, TRUE, "brentq_errp" \in orc)]

\* TS at the flux seed: (stat_null - stat) * np.sign(flux)
SeedTs(e, ds) ==
    LET flux == ds.x_guess
        stat == stat_sum(ds, (flux * NormScale) \div e.flux_ref)
        stat_null == stat_sum(ds, 0)
    IN FScale(FSub(stat_null, stat), Sign(flux))

\* ts < self.ts_threshold, the threshold being <<>> for None
BelowThreshold(e, ds) ==
    e.ts_threshold # <<>> /\ FLess(SeedTs(e, ds), e.ts_threshold[1])

\* BrentqFluxEstimator.run: the result dict and the trace of the methods
\* and brentq calls executed
run(e, ds, orc) ==
    IF BelowThreshold(e, ds)
    THEN [result |-> nan_result(e), calls |-> <<>>]
    ELSE LET with_errn_errp(result) ==
                 IF "errn-errp" \in e.selection_optional
                 THEN estimate_errn_errp(e, ds, result, orc) @@ result ELSE result
             with_ul(result) ==
                 with_errn_errp(IF "ul" \in e.selection_optional
                                THEN estimate_ul(e, ds, result, orc) @@ result
                                ELSE result)
             fitted(bf) ==
                 [result |-> with_ul(bf.result),
                  calls |-> bf.calls
                            \o (IF "ul" \in e.selection_optional
                                THEN <<"estimate_ul", "brentq_ul">> ELSE <<>>)
                            \o (IF "errn-errp" \in e.selection_optional
                                THEN <<"estimate_errn_errp", "brentq_errn", "brentq_errp">>
                                ELSE <<>>)]
         IN fitted(estimate_best_fit(e, ds, orc))

-----------------------------------------------------------------------------
(* Maps: a map is a function on the pixels <<row, col>> of its shape        *)

\* flux_ref, in the units of the flux seed; the exposure is counted in units
\* of sum(weights) / FluxRef, which makes kernel * flux_ref * exposure whole
FluxRef == 2

Pixels(shape) == (0..(shape[1] - 1)) \X (0..(shape[2] - 1))

\* int(np.ceil(f) // 2 * 2 + 1), for the width f = num / den pixels
\* round_up_to_odd with np.floor in the place of np.ceil
round_up_to_odd_floor(num, den) == (FloorDiv(num, den) \div 2) * 2 + 1

round_up_to_odd(num, den) == (CeilDiv(num, den) \div 2) * 2 + 1

\* the indices lo:hi selects from an axis of length n
PySlice(lo, hi, n) ==
    LET start == IF lo < 0 THEN Max(lo + n, 0) ELSE Min(lo, n)
        stop == IF hi < 0 THEN Max(hi + n, 0) ELSE Min(hi, n)
    IN start..(stop - 1)

\* the elements of a set of whole numbers in increasing order
SortedSeq(S) ==
    [k \in 1..Cardinality(S) |->
        CHOOSE x \in S : Cardinality({y \in S : y < x}) = k - 1]

\* array[:, y_lo:y_hi, x_lo:x_hi], ravelled; shape = <<energy, rows, cols>>
_extract_array(array, ashape, shape, position) ==
    LET x_width == shape[3] \div 2
        y_width == shape[2] \div 2
        y_lo == position[1] - y_width
        y_hi == position[1] + y_width + 1
        x_lo == position[2] - x_width
        x_hi == position[2] + x_width + 1
        ys == SortedSeq(PySlice(y_lo, y_hi, ashape[1]))
        xs == SortedSeq(PySlice(x_lo, x_hi, ashape[2]))
    IN [k \in 1..(Len(ys) * Len(xs)) |->
           array[<<ys[((k - 1) \div Len(xs)) + 1], xs[((k - 1) % Len(xs)) + 1]>>]]

RECURSIVE Binomial(_)
\* the row 1, n-1, ..., 1 of Pascal's triangle with n entries
Binomial(n) ==
    IF n = 1 THEN <<1>>
    ELSE LET b == Binomial(n - 1)
         IN [k \in 1..n |-> (IF k > 1 THEN b[k - 1] ELSE 0)
                            + (IF k < n THEN b[k] ELSE 0)]

\* the weights of the source template on npix x npix pixels, ravelled; the
\* kernel is weights / sum(weights)
KernelWeights(npix) ==
    LET b == Binomial(npix)
    IN [k \in 1..(npix * npix) |-> b[((k - 1) \div npix) + 1] * b[((k - 1) % npix) + 1]]

\* estimate_kernel raising only for a kernel wider than the map
estimate_kernel_wider_only(t, ds) ==
    LET npix == round_up_to_odd(t.kernel_width, 2 * ds.binsz)
    IN [ok |-> ~(\E a \in 1..2 :
                   t.kernel_width + 2 * ds.binsz > 2 * ds.shape[a] * ds.binsz),
        shape |-> <<1, npix, npix>>,
        data |-> KernelWeights(npix)]

\* TSMapEstimator.estimate_kernel: ok is FALSE where it raises ValueError;
\* kernel_width is in half pixels of the input map and binsz in pixels of
\* the input map
estimate_kernel(t, ds) ==
    LET npix == round_up_to_odd(t.kernel_width, 2 * ds.binsz)
    IN [ok |-> ~(\E a \in 1..2 :
                   t.kernel_width + 2 * ds.binsz >= 2 * ds.shape[a] * ds.binsz),
        shape |-> <<1, npix, npix>>,
        data |-> KernelWeights(npix)]

\* estimate_mask_default without the border of half a kernel
estimate_mask_default_no_border(ds, kshape) ==
    [p \in Pixels(ds.shape) |-> ds.mask_safe[p] /\ ds.background[p] # 0]

\* TSMapEstimator.estimate_mask_default
estimate_mask_default(ds, kshape) ==
    LET slice_x == PySlice(kshape[3] \div 2, ((-kshape[3]) \div 2) + 1, ds.shape[2])
        slice_y == PySlice(kshape[2] \div 2, ((-kshape[2]) \div 2) + 1, ds.shape[1])
    IN [p \in Pixels(ds.shape) |->
           /\ p[1] \in slice_y /\ p[2] \in slice_x
           /\ ds.mask_safe[p]
           /\ ds.background[p] # 0]

\* TSMapEstimator.estimate_flux_default: the residual counts - npred over the
\* exposure, convolved with kernel / sum(kernel^2), in units of
\* flux_ref / FluxRef
estimate_flux_default(ds, kernel, exposure) ==
    LET n == kernel.shape[3]
        h == n \div 2
        w(dy, dx) == kernel.data[(dy + h) * n + (dx + h) + 1]
        sum2 == SumSeq([k \in 1..Len(kernel.data) |-> kernel.data[k] * kernel.data[k]])
        term(p, dy, dx) ==
            LET q == <<p[1] + dy, p[2] + dx>>
            IN IF q \in Pixels(ds.shape)
               THEN RoundDiv(FluxRef * w(dy, dx) * (ds.counts[q] - ds.background[q])
                                 * StatScale, exposure[q])
               ELSE 0
    IN [p \in Pixels(ds.shape) |->
           RoundAway(SumSeq([k \in 1..(n * n) |->
                                term(p, ((k - 1) \div n) - h, ((k - 1) % n) - h)]),
                     sum2 * StatScale)]

\* SimpleMapDataset.from_arrays; kernel is kernel * flux_ref
from_arrays(shape, counts, background, exposure, flux, position, kernel) ==
    LET counts_cutout == _extract_array(counts, shape, kernel.shape, position)
        background_cutout == _extract_array(background, shape, kernel.shape, position)
        exposure_cutout == _extract_array(exposure, shape, kernel.shape, position)
    IN [counts |-> counts_cutout,
        background |-> background_cutout,
        model |-> [k \in 1..Len(kernel.data) |->
                      (kernel.data[k] * exposure_cutout[k]) \div FluxRef],
        x_guess |-> flux[position]]

\* _ts_value: the FitResult of one position
_ts_value(position, shape, counts, exposure, background, kernel, flux, flux_estimator, orc) ==
    run(flux_estimator,
        from_arrays(shape, counts, background, exposure, flux, position,
                    [shape |-> kernel.shape,
                     data |-> [k \in 1..Len(kernel.data) |->
                                  kernel.data[k] * flux_estimator.flux_ref]]),
        orc).result

\* np.sqrt, in units of 1/SqrtScale of a value in units of 1/StatScale
FSqrt(x) ==
    IF IsNaN(x) \/ x < 0 THEN NaN
    ELSE IF x = Inf THEN Inf
    ELSE ISqrt(x * ((SqrtScale * SqrtScale) \div StatScale))

\* np.where(ts > 0, np.sqrt(ts), -np.sqrt(-ts)) at one pixel
SignedSqrt(ts) ==
    IF FGreater(ts, 0) THEN FSqrt(ts) ELSE FNeg(FSqrt(FNeg(ts)))

\* the square root of the magnitude at every pixel, without the sign
estimate_sqrt_ts_unsigned(map_ts) ==
    [p \in DOMAIN map_ts |-> FSqrt(Abs(map_ts[p]))]

\* TSMapEstimator.estimate_sqrt_ts
estimate_sqrt_ts(map_ts) ==
    [p \in DOMAIN map_ts |-> SignedSqrt(map_ts[p])]

-----------------------------------------------------------------------------
(* One BrentqFluxEstimator on one SimpleMapDataset *)

\* bins of a cutout: the bin of the source position and one neighbour
CutoutBins == 1..2

\* thresholds of the model, in units of 1/StatScale
Thresholds == {<<>>, <<0>>}

Selections == {{}, {"ul"}, {"errn-errp"}, {"all"}}

\* the brentq calls a configured estimator can make
CallsOf(e) ==
    {"brentq_best_fit"}
    \cup (IF "ul" \in e.selection_optional THEN {"brentq_ul"} ELSE {})
    \cup (IF "errn-errp" \in e.selection_optional
          THEN {"brentq_errn", "brentq_errp"} ELSE {})

\* at most one brentq call of a run stops at the iteration limit; the limit
\* is reached only in runs without a threshold that select every optional
\* step
Oracles(e) ==
    {{}} \cup (IF e.ts_threshold = <<>> /\ e.selection_optional = _available_selection_optional
               /\ e.n_sigma_ul = 2
               THEN {{c} : c \in CallsOf(e)} ELSE {})

Datasets ==
    [counts : [CutoutBins -> 0..MaxCount],
     background : [CutoutBins -> 0..MaxBkg],
     model : {<<m, 1>> : m \in 1..MaxModel},
     x_guess : -MaxGuess..MaxGuess]

\* n_sigma_ul of the model: the default 2, and 1
NSigmaUls == {1, 2}

\* BrentqFluxEstimator.__init__ as TSMapEstimator.__init__ calls it with
\* the default n_sigma=1, and flux_ref as estimate_exposure sets it
BrentqFluxEstimator(selection_optional, ts_threshold, n_sigma_ul) ==
    [n_sigma |-> 1,
     n_sigma_ul |-> n_sigma_ul,
     selection_optional |-> selection_optional_setter(selection_optional),
     max_niter |-> 20,
     ts_threshold |-> ts_threshold,
     flux_ref |-> FluxRef]

\* no Pool created; done lists the tasks in the order the workers complete
\* them
NoPool == [state |-> "none", queue |-> <<>>, busy |-> <<>>, done |-> <<>>]

\* no TSMapEstimator.run in progress
ScanIdle ==
    /\ tsm = <<>> /\ mapds = <<>> /\ pc = "idle" /\ loc = <<>>
    /\ results = <<>> /\ pool = NoPool /\ out = <<>> /\ err = "none"

FitInit ==
    /\ ScanIdle
    /\ dataset \in Datasets
    /\ est \in {BrentqFluxEstimator(s, t, 2) : s \in Selections, t \in Thresholds}
               \cup {BrentqFluxEstimator({"ul"}, <<>>, u) : u \in NSigmaUls}
    /\ oracle \in Oracles(est)
    /\ fit = <<>>
    /\ calls = <<>>
    /\ fpc = "ready"

\* result = flux_estimator.run(dataset); estimate_best_fit reads
\* dataset.norm_bounds
FitRun ==
    /\ fpc = "ready"
    /\ LET r == run(est, dataset, oracle)
       IN /\ fit' = r.result
          /\ calls' = r.calls
    /\ dataset' = IF BelowThreshold(est, dataset) THEN dataset ELSE lazyproperty(dataset)
    /\ fpc' = "run"
    /\ UNCHANGED <<est, oracle>>
    /\ UNCHANGED scanVars

\* result = flux_estimator.estimate_best_fit(dataset)
FitBestFit ==
    /\ fpc = "ready"
    /\ LET r == estimate_best_fit(est, dataset, oracle)
       IN /\ fit' = r.result
          /\ calls' = r.calls
    /\ dataset' = lazyproperty(dataset)
    /\ fpc' = "best_fit"
    /\ UNCHANGED <<est, oracle>>
    /\ UNCHANGED scanVars

\* result = flux_estimator.estimate_best_fit(dataset), a second time on the
\* same dataset
FitBestFitAgain ==
    /\ fpc = "best_fit"
    /\ LET r == estimate_best_fit(est, dataset, oracle)
       IN /\ fit' = r.result
          /\ calls' = calls \o r.calls
    /\ dataset' = lazyproperty(dataset)
    /\ fpc' = "best_fit_again"
    /\ UNCHANGED <<est, oracle>>
    /\ UNCHANGED scanVars

FitNext == FitRun \/ FitBestFit \/ FitBestFitAgain

SpecFit == FitInit /\ [][FitNext]_vars

-----------------------------------------------------------------------------
(* TSMapEstimator.run on one MapDataset *)

MapCols == 4         \* columns of the counts map
MaxJobs == 2         \* n_jobs: None, 1..MaxJobs

\* three rows, the height of the 3 x 3 kernel: the positions of a scan lie
\* on the middle row
MapShape == <<3, MapCols>>

\* kernel_width / binsz in half pixels: 1 pixel (a kernel of one pixel),
\* 1.5 pixels (3 x 3), 2 pixels (3 x 3, with one bin as wide as the map
\* is high) and 3 pixels (3 x 3, too wide for the map)
KernelWidths == {2, 3, 4, 6}

\* the pixels of the middle row
MiddleRow == {p \in Pixels(MapShape) : p[1] = MapShape[1] \div 2}

\* counts: a flat level and MaxCount more in at most one pixel of the
\* middle row
CountsMaps ==
    {[p \in Pixels(MapShape) |-> base + (IF <<p>> = src THEN MaxCount ELSE 0)] :
        base \in 0..1, src \in {<<>>} \cup {<<q>> : q \in MiddleRow}}

\* predicted background: flat, with at most one empty pixel
BackgroundMaps ==
    {[p \in Pixels(MapShape) |-> IF <<p>> = z THEN 0 ELSE MaxBkg] :
        z \in {<<>>, <<(<<MapShape[1] \div 2, 1>>)>>}}

MaskSafeMaps == {[p \in Pixels(MapShape) |-> b] : b \in BOOLEAN}

MapDatasets ==
    [shape : {MapShape},
     binsz : {1},
     counts : CountsMaps,
     background : BackgroundMaps,
     exposure : {[p \in Pixels(MapShape) |-> 1]},
     mask_safe : MaskSafeMaps]

\* flux_ref as BrentqFluxEstimator.__init__ sets it
FluxRefInit == 1

\* TSMapEstimator.__init__; None is <<>>
TSMapEstimator(kernel_width, downsampling_factor, threshold, selection_optional, n_jobs) ==
    [kernel_width |-> kernel_width,
     downsampling_factor |-> downsampling_factor,
     threshold |-> threshold,
     n_jobs |-> n_jobs,
     selection_raw |-> selection_optional,
     selection_optional |-> selection_optional_setter(selection_optional)]

\* no BrentqFluxEstimator.run called from outside a map scan
FitIdle ==
    /\ dataset = <<>> /\ fit = <<>> /\ calls = <<>> /\ fpc = "idle"

Init ==
    /\ FitIdle
    /\ mapds \in MapDatasets
    /\ \E w \in KernelWidths, t \in Thresholds, sel \in Selections,
          n \in {<<>>} \cup {<<k>> : k \in 1..MaxJobs} :
          /\ tsm = TSMapEstimator(w, <<>>, t, sel, n)
          /\ est = [BrentqFluxEstimator(sel, t, 2) EXCEPT !.flux_ref = FluxRefInit]
          /\ oracle \in Oracles(BrentqFluxEstimator(sel, t, 2))
    /\ pc = "start"
    /\ loc = <<>>
    /\ results = <<>>
    /\ pool = NoPool
    /\ out = <<>>
    /\ err = "none"

\* TSMapEstimator.estimate_exposure: the predicted counts of the reference
\* model over its flux; sets flux_ref of the flux estimator
estimate_exposure(ds) == ds.exposure

\* positions = list(zip(*np.where(mask))): the pixels of the mask in row
\* major order
Positions(shape, mask) ==
    LET ranks == {p[1] * shape[2] + p[2] : p \in {q \in Pixels(shape) : mask[q]}}
        sorted == SortedSeq(ranks)
    IN [k \in 1..Len(sorted) |-> <<sorted[k] \div shape[2], sorted[k] % shape[2]>>]

\* wrap = functools.partial(_ts_value, counts=..., flux_estimator=...): the
\* function of the position, as its graph over the positions of the run
wrap(ds, exposure, kernel, flux, flux_estimator, orc, positions) ==
    [position \in Range(positions) |->
        _ts_value(position, ds.shape, ds.counts, exposure, ds.background,
                  kernel, flux, flux_estimator, orc)]

\* lines 356-384 of run: the arrays, the kernel, the mask, the flux seed and
\* the positions
RunPrepare ==
    /\ pc = "start"
    /\ LET exposure == estimate_exposure(mapds)
           kernel == estimate_kernel(tsm, mapds)
           mask == estimate_mask_default(mapds, kernel.shape)
           flux == estimate_flux_default(mapds, kernel, exposure)
           positions == Positions(mapds.shape, mask)
       IN /\ est' = [est EXCEPT !.flux_ref = FluxRef]
          /\ IF ~kernel.ok
             THEN /\ pc' = "error"
                  /\ err' = "ValueError: kernel"
                  /\ UNCHANGED loc
             ELSE /\ loc' = [exposure |-> exposure,
                             kernel |-> [shape |-> kernel.shape, data |-> kernel.data],
                             mask |-> mask,
                             flux |-> flux,
                             wrap |-> wrap(mapds, exposure, kernel, flux, est',
                                           oracle, positions),
                             positions |-> positions]
                  /\ pc' = IF tsm.n_jobs = <<>> THEN "map" ELSE "pool"
                  /\ UNCHANGED err
    /\ UNCHANGED <<tsm, mapds, results, pool, out>>
    /\ UNCHANGED <<oracle>> /\ UNCHANGED fitVarsIdle

\* results = list(map(wrap, positions))
SeqMap ==
    /\ pc = "map"
    /\ results' = [k \in 1..Len(loc.positions) |-> loc.wrap[loc.positions[k]]]
    /\ pc' = "scatter"
    /\ UNCHANGED <<tsm, mapds, loc, pool, out, err, est, oracle>>
    /\ UNCHANGED fitVarsIdle

\* a result not yet computed
Pending == [pending |-> TRUE]

IsPending(r) == "pending" \in DOMAIN r

\* a result handler that lists the results in the order they arrive
PoolCollect_unordered(res, idx, value) ==
    LET k == CHOOSE i \in DOMAIN res :
                 /\ IsPending(res[i])
                 /\ \A j \in DOMAIN res : j < i => ~IsPending(res[j])
    IN [res EXCEPT ![k] = value]

\* the result handler of pool.map: each result goes to the place of its task
PoolCollect(res, idx, value) == [res EXCEPT ![idx] = value]

\* Pool(processes=self.n_jobs) and the start of pool.map: one task per
\* position (chunks of one task)
PoolCreate ==
    /\ pc = "pool"
    /\ pool' = [state |-> "open",
                queue |-> [k \in 1..Len(loc.positions) |-> k],
                busy |-> [w \in 1..tsm.n_jobs[1] |-> 0],
                done |-> <<>>]
    /\ results' = [k \in 1..Len(loc.positions) |-> Pending]
    /\ pc' = "pool_map"
    /\ UNCHANGED <<tsm, mapds, loc, out, err, est, oracle>>
    /\ UNCHANGED fitVarsIdle

\* an idle worker takes the next task of the queue
WorkerTake(w) ==
    /\ pc = "pool_map"
    /\ pool.busy[w] = 0
    /\ pool.queue # <<>>
    /\ pool' = [pool EXCEPT !.busy[w] = Head(pool.queue), !.queue = Tail(pool.queue)]
    /\ UNCHANGED <<tsm, mapds, pc, loc, results, out, err, est, oracle>>
    /\ UNCHANGED fitVarsIdle

\* a worker completes its task and hands the result back
WorkerFinish(w) ==
    /\ pc = "pool_map"
    /\ pool.busy[w] # 0
    /\ results' = PoolCollect(results, pool.busy[w], loc.wrap[loc.positions[pool.busy[w]]])
    /\ pool' = [pool EXCEPT !.busy[w] = 0, !.done = Append(@, pool.busy[w])]
    /\ UNCHANGED <<tsm, mapds, pc, loc, out, err, est, oracle>>
    /\ UNCHANGED fitVarsIdle

\* pool.map returns with every result in; leaving the with block closes
\* the pool
PoolMapReturn ==
    /\ pc = "pool_map"
    /\ pool.queue = <<>>
    /\ \A w \in DOMAIN pool.busy : pool.busy[w] = 0
    /\ pool' = [pool EXCEPT !.state = "closed"]
    /\ pc' = "pool_join"
    /\ UNCHANGED <<tsm, mapds, loc, results, out, err, est, oracle>>
    /\ UNCHANGED fitVarsIdle

\* pool.join()
PoolJoin ==
    /\ pc = "pool_join"
    /\ pool' = [pool EXCEPT !.state = "joined"]
    /\ pc' = "scatter"
    /\ UNCHANGED <<tsm, mapds, loc, results, out, err, est, oracle>>
    /\ UNCHANGED fitVarsIdle

\* names without the upper limit map
RunNames_without_ul(selection_optional) ==
    <<"ts", "flux", "niter", "flux_err">>
    \o (IF "errn-errp" \in selection_optional THEN <<"flux_errp", "flux_errn">> ELSE <<>>)

\* names of run
RunNames(selection_optional) ==
    <<"ts", "flux", "niter", "flux_err">>
    \o (IF "errn-errp" \in selection_optional THEN <<"flux_errp", "flux_errn">> ELSE <<>>)
    \o (IF "ul" \in selection_optional THEN <<"flux_ul">> ELSE <<>>)

\* name.replace("flux", "norm")
NormKey(name) ==
    CASE name = "flux" -> "norm"
      [] name = "flux_err" -> "norm_err"
      [] name = "flux_errp" -> "norm_errp"
      [] name = "flux_errn" -> "norm_errn"
      [] name = "flux_ul" -> "norm_ul"
      [] OTHER -> name

IsFluxName(name) == name \in {"flux", "flux_err", "flux_errp", "flux_errn", "flux_ul"}

\* the pixel with row and column exchanged: m.data[i, j]
ScatterPixel_transposed(positions, k) == <<positions[k][2], positions[k][1]>>

\* m.data[j, i] = [...]: the pixel the k-th result is written to, with
\* j, i = zip(*positions)
ScatterPixel(positions, k) == <<positions[k][1], positions[k][2]>>

\* Map.from_geom(geom, data=np.nan) with the results scattered in, flux
\* maps multiplied by flux_ref
ScatterMap(shape, positions, res, name, flux_ref) ==
    [p \in Pixels(shape) |->
        IF \E k \in 1..Len(positions) : ScatterPixel(positions, k) = p
        THEN LET k == CHOOSE i \in 1..Len(positions) :
                          /\ ScatterPixel(positions, i) = p
                          /\ \A i2 \in 1..Len(positions) :
                                 ScatterPixel(positions, i2) = p => i2 <= i
                 v == res[k][NormKey(name)]
             IN IF IsFluxName(name) THEN FScale(v, flux_ref) ELSE v
        ELSE NaN]

\* lines 395-427 of run without downsampling: the exception raised, or the
\* dict of maps
Assemble(shape, selection_optional, flux_ref, positions, res) ==
    LET names == RunNames(selection_optional)
        missing == \E n \in Range(names), k \in 1..Len(res) :
                       NormKey(n) \notin DOMAIN res[k]
        maps == [n \in Range(names) |-> ScatterMap(shape, positions, res, n, flux_ref)]
        sqrt_ts == estimate_sqrt_ts(maps["ts"])
    IN IF positions = <<>> THEN [err |-> "ValueError: unpack", out |-> <<>>]
       ELSE IF missing THEN [err |-> "KeyError", out |-> <<>>]
       ELSE [err |-> "none",
             out |-> [n \in Range(names) \cup {"sqrt_ts"} |->
                         IF n = "sqrt_ts" THEN sqrt_ts ELSE maps[n]]]

\* the rest of run: the maps are built from the results and returned
RunAssemble ==
    /\ pc = "scatter"
    /\ LET r == Assemble(mapds.shape, tsm.selection_optional, est.flux_ref,
                         loc.positions, results)
       IN /\ err' = r.err
          /\ out' = r.out
          /\ pc' = IF r.err = "none" THEN "done" ELSE "error"
    /\ UNCHANGED <<tsm, mapds, loc, results, pool, est, oracle>>
    /\ UNCHANGED fitVarsIdle

Next ==
    \/ RunPrepare
    \/ SeqMap
    \/ PoolCreate
    \/ \E w \in 1..MaxJobs : w \in DOMAIN pool.busy /\ WorkerTake(w)
    \/ \E w \in 1..MaxJobs : w \in DOMAIN pool.busy /\ WorkerFinish(w)
    \/ PoolMapReturn
    \/ PoolJoin
    \/ RunAssemble

Spec == Init /\ [][Next]_vars

\* a task raises in its worker (an exception other than the RuntimeError and
\* ValueError the estimator catches): pool.map re-raises it in run while
\* other workers may still be busy, contextlib.closing calls pool.close()
\* on the way out and the exception leaves run before pool.join()
WorkerRaise(w) ==
    /\ pc = "pool_map"
    /\ pool.busy[w] # 0
    /\ pool' = [pool EXCEPT !.busy[w] = 0, !.state = "closed"]
    /\ pc' = "error"
    /\ err' = "Exception: worker"
    /\ UNCHANGED <<tsm, mapds, loc, results, out, est, oracle>>
    /\ UNCHANGED fitVarsIdle

NextFault ==
    \/ Next
    \/ \E w \in 1..MaxJobs : w \in DOMAIN pool.busy /\ WorkerRaise(w)

\* TSMapEstimator.run with tasks that may raise
SpecFault == Init /\ [][NextFault]_vars

-----------------------------------------------------------------------------
(* TSMapEstimator.estimate_sqrt_ts on one ts map *)

MaxTs == 6           \* ts of a pixel: -MaxTs..MaxTs quarters, NaN, -Inf, Inf

\* ts in units of 1/StatScale
TsValues ==
    {k * (StatScale \div 4) : k \in (-MaxTs)..MaxTs} \cup {1, -1, NaN, Inf, -Inf}

\* a ts map of two pixels
TsMaps == [Pixels(<<1, 2>>) -> TsValues]

SqrtInit ==
    /\ FitIdle
    /\ oracle = {}
    /\ est = BrentqFluxEstimator({}, <<>>, 2)
    /\ tsm = <<>>
    /\ mapds = <<>>
    /\ pc = "sqrt_ts"
    /\ loc = <<>>
    /\ results = <<>>
    /\ pool = NoPool
    /\ \E m \in TsMaps : out = [ts |-> m]
    /\ err = "none"

\* result["sqrt_ts"] = self.estimate_sqrt_ts(result["ts"])
SqrtTs ==
    /\ pc = "sqrt_ts"
    /\ out' = [n \in DOMAIN out \cup {"sqrt_ts"} |->
                  IF n = "sqrt_ts" THEN estimate_sqrt_ts(out["ts"]) ELSE out[n]]
    /\ pc' = "done"
    /\ UNCHANGED <<tsm, mapds, loc, results, pool, err, est, oracle>>
    /\ UNCHANGED fitVarsIdle

SpecSqrt == SqrtInit /\ [][SqrtTs]_vars

-----------------------------------------------------------------------------
(* TSMapEstimator.run with a downsampling factor: the shapes of the maps *)

MaxHalfSide == 6     \* square maps of side 2, 4, .., 2 * MaxHalfSide

GeomShapes == {<<2 * k, 2 * k>> : k \in 1..MaxHalfSide}

DownsamplingFactors == {<<>>, <<2>>, <<4>>}

\* kernel widths in half pixels of the input map: 4 and 6 pixels
GeomKernelWidths == {8, 12}

\* shape + (2 ** N - np.mod(shape, 2 ** N)) with N = 3
shape_2N(shape) ==
    [a \in 1..2 |-> shape[a] + ((2 * 2 * 2) - (shape[a] % (2 * 2 * 2)))]

\* <<ywidth, xwidth>>, each the widths before and after
symmetric_crop_pad_width(shape, new_shape) ==
    LET xdiff == Abs(shape[2] - new_shape[2])
        ydiff == Abs(shape[1] - new_shape[1])
    IN <<(<<ydiff \div 2, ydiff - (ydiff \div 2)>>),
         (<<xdiff \div 2, xdiff - (xdiff \div 2)>>)>>

\* the shape of a map padded by pad_width = <<x, y>> on either side
pad(shape, pad_width) ==
    <<shape[1] + 2 * pad_width[2], shape[2] + 2 * pad_width[1]>>

downsample(shape, factor) == <<shape[1] \div factor, shape[2] \div factor>>

upsample(shape, factor) == <<shape[1] * factor, shape[2] * factor>>

\* the shape of a map cropped by crop_width = <<x, y>> on either side
crop(shape, crop_width) ==
    <<shape[1] - 2 * crop_width[2], shape[2] - 2 * crop_width[1]>>

\* a dataset of the given geometry with a flat background, all of it safe
GeomDataset(shape, binsz) ==
    [shape |-> shape,
     binsz |-> binsz,
     counts |-> [p \in Pixels(shape) |-> 0],
     background |-> [p \in Pixels(shape) |-> 1],
     exposure |-> [p \in Pixels(shape) |-> 1],
     mask_safe |-> [p \in Pixels(shape) |-> TRUE]]

GeomInit ==
    /\ FitIdle
    /\ oracle = {}
    /\ \E sh \in GeomShapes, w \in GeomKernelWidths, f \in DownsamplingFactors,
          sel \in Selections :
          /\ mapds = GeomDataset(sh, 1)
          /\ tsm = TSMapEstimator(w, f, <<>>, sel, <<>>)
          /\ est = [BrentqFluxEstimator(sel, <<>>, 2) EXCEPT !.flux_ref = FluxRefInit]
    /\ pc = "start"
    /\ loc = <<>>
    /\ results = <<>>
    /\ pool = NoPool
    /\ out = <<>>
    /\ err = "none"

\* lines 356-359 of run: the dataset the scan works on
GeomDownsample ==
    /\ pc = "start"
    /\ IF tsm.downsampling_factor # <<>>
       THEN LET shape == mapds.shape
                pad_width == symmetric_crop_pad_width(shape, shape_2N(shape))[1]
                factor == tsm.downsampling_factor[1]
            IN loc' = [pad_width |-> pad_width,
                       dataset |-> GeomDataset(downsample(pad(shape, pad_width), factor),
                                               factor)]
       ELSE loc' = [pad_width |-> <<0, 0>>, dataset |-> mapds]
    /\ pc' = "scan"
    /\ UNCHANGED <<tsm, mapds, results, pool, out, err, est, oracle>>
    /\ UNCHANGED fitVarsIdle

\* lines 361-417 of run: the shape of every map made from the geometry of
\* the working counts, sqrt_ts a copy of ts
GeomScan ==
    /\ pc = "scan"
    /\ LET kernel == estimate_kernel(tsm, loc.dataset)
           mask == estimate_mask_default(loc.dataset, kernel.shape)
           positions == Positions(loc.dataset.shape, mask)
           names == RunNames(tsm.selection_optional)
       IN IF ~kernel.ok
          THEN pc' = "error" /\ err' = "ValueError: kernel" /\ UNCHANGED out
          ELSE IF positions = <<>>
          THEN pc' = "error" /\ err' = "ValueError: unpack" /\ UNCHANGED out
          ELSE /\ out' = [n \in Range(names) \cup {"sqrt_ts"} |-> loc.dataset.shape]
               /\ pc' = "upsample"
               /\ UNCHANGED err
    /\ est' = [est EXCEPT !.flux_ref = FluxRef]
    /\ UNCHANGED <<tsm, mapds, loc, results, pool, oracle>>
    /\ UNCHANGED fitVarsIdle

\* lines 419-427 of run: the maps of names are upsampled and cropped
GeomUpsample ==
    /\ pc = "upsample"
    /\ LET names == RunNames(tsm.selection_optional)
       IN IF tsm.downsampling_factor # <<>>
          THEN out' = [n \in DOMAIN out |->
                          IF n \in Range(names)
                          THEN crop(upsample(out[n], tsm.downsampling_factor[1]),
                                    loc.pad_width)
                          ELSE out[n]]
          ELSE UNCHANGED out
    /\ pc' = "done"
    /\ UNCHANGED <<tsm, mapds, loc, results, pool, err, est, oracle>>
    /\ UNCHANGED fitVarsIdle

GeomNext == GeomDownsample \/ GeomScan \/ GeomUpsample

SpecGeom == GeomInit /\ [][GeomNext]_vars

-----------------------------------------------------------------------------
(* SafeMaskMaker of gammapy/spectrum/make.py: tsm is the maker, loc holds the
   methods argument of its constructor, mapds the dataset handed to run and
   out the dataset run returns *)

MaskBins == 2        \* energy bins of the dataset

MethodNames == {"aeff-default", "aeff-max", "edisp-bias"}

\* a Python str (value holds its text) and a Python list of str (value
\* holds its items)
Str(s) == [type |-> "str", value |-> <<s>>]

List(q) == [type |-> "list", value |-> q]

\* the characters of a method name
Characters(s) ==
    CASE s = "aeff-default" -> <<"a", "e", "f", "f", "-", "d", "e", "f", "a", "u", "l", "t">>
      [] s = "aeff-max" -> <<"a", "e", "f", "f", "-", "m", "a", "x">>
      [] s = "edisp-bias" -> <<"e", "d", "i", "s", "p", "-", "b", "i", "a", "s">>

\* list(x): the items of a list, the characters of a str
list(x) == IF x.type = "str" THEN Characters(x.value[1]) ELSE x.value

\* SafeMaskMaker(methods)
SafeMaskMaker(methods) == [methods |-> list(methods)]

\* the masks the three make_mask_energy_* methods return for a dataset and
\* its observation
MethodMasks == [MethodNames -> [1..MaskBins -> BOOLEAN]]

\* a method name, or a list of distinct method names
MethodArgs ==
    {Str(n) : n \in MethodNames}
        \cup {List(q) : q \in {r \in UNION {[1..n -> MethodNames] : n \in 0..Cardinality(MethodNames)} :
                                  \A i, j \in DOMAIN r : r[i] = r[j] => i = j}}

make_mask_energy_aeff_default(ds) == ds.masks["aeff-default"]

make_mask_energy_aeff_max(ds) == ds.masks["aeff-max"]

make_mask_energy_edisp_bias(ds) == ds.masks["edisp-bias"]

\* mask_safe of SafeMaskMaker.run: np.ones, then one &= per method found in
\* self.methods
SafeMaskMaker_run(maker, ds) ==
    LET ones == [i \in 1..ds.data_shape |-> TRUE]
        and(mask, name, other) ==
            IF name \in Range(maker.methods)
            THEN [i \in DOMAIN mask |-> mask[i] /\ other[i]]
            ELSE mask
    IN and(and(and(ones, "aeff-default", make_mask_energy_aeff_default(ds)),
               "aeff-max", make_mask_energy_aeff_max(ds)),
           "edisp-bias", make_mask_energy_edisp_bias(ds))

MaskInit ==
    /\ FitIdle
    /\ oracle = {}
    /\ est = BrentqFluxEstimator({}, <<>>, 2)
    /\ \E m \in MethodArgs :
          /\ loc = [methods |-> m]
          /\ tsm = SafeMaskMaker(m)
    /\ \E masks \in MethodMasks :
          mapds = [data_shape |-> MaskBins, masks |-> masks, mask_safe |-> <<>>]
    /\ pc = "mask_safe"
    /\ results = <<>>
    /\ pool = NoPool
    /\ out = <<>>
    /\ err = "none"

\* dataset = maker.run(dataset, observation)
MaskRun ==
    /\ pc = "mask_safe"
    /\ mapds' = [mapds EXCEPT !.mask_safe = SafeMaskMaker_run(tsm, mapds)]
    /\ out' = mapds'
    /\ pc' = "mask_done"
    /\ UNCHANGED <<tsm, loc, results, pool, err, est, oracle>>
    /\ UNCHANGED fitVarsIdle

SpecMask == MaskInit /\ [][MaskRun]_vars

-----------------------------------------------------------------------------
(* round_up_to_odd and the size of the kernel: loc holds the kernel width
   (in half pixels of the map) and the bin size of a run, out the size
   round_up_to_odd gives and the shape of the kernel of estimate_kernel *)

MaxKernelWidth == 12   \* kernel widths 1..MaxKernelWidth
MaxBinsz == 5          \* bin sizes 1..MaxBinsz

\* a map of n x n pixels
SquareDataset(n, binsz) == [shape |-> <<n, n>>, binsz |-> binsz]

OddInit ==
    /\ FitIdle
    /\ oracle = {}
    /\ est = BrentqFluxEstimator({}, <<>>, 2)
    /\ tsm = <<>>
    /\ mapds = <<>>
    /\ \E w \in 1..MaxKernelWidth, b \in 1..MaxBinsz :
          loc = [kernel_width |-> w, binsz |-> b]
    /\ pc = "width_pix"
    /\ results = <<>>
    /\ pool = NoPool
    /\ out = <<>>
    /\ err = "none"

\* npix = round_up_to_odd(width_pix) and the kernel of estimate_kernel on a
\* map wide enough for it
OddRound ==
    /\ pc = "width_pix"
    /\ out' = [npix |-> round_up_to_odd(loc.kernel_width, 2 * loc.binsz),
               kernel_shape |->
                   estimate_kernel([kernel_width |-> loc.kernel_width],
                                   SquareDataset(2 * MaxKernelWidth, loc.binsz)).shape]
    /\ pc' = "npix"
    /\ UNCHANGED <<tsm, mapds, loc, results, pool, err, est, oracle>>
    /\ UNCHANGED fitVarsIdle

SpecOdd == OddInit /\ [][OddRound]_vars

-----------------------------------------------------------------------------
(* The cutouts of a scan: mapds is the dataset of the scan, tsm holds the
   kernel width, loc the kernel shape, the mask, the positions and the
   cutouts _extract_array takes from the three arrays at every position *)

MaxSide == 6         \* maps of 2..MaxSide rows and columns

\* arrays whose pixels all differ
LabelMap(shape, first, step) ==
    [p \in Pixels(shape) |-> first + step * (p[1] * shape[2] + p[2])]

CutoutDataset(shape) ==
    [shape |-> shape,
     binsz |-> 1,
     counts |-> LabelMap(shape, 0, 1),
     background |-> LabelMap(shape, 1, 1),
     exposure |-> LabelMap(shape, 1, 2),
     mask_safe |-> [p \in Pixels(shape) |-> TRUE]]

CutoutInit ==
    /\ FitIdle
    /\ oracle = {}
    /\ est = BrentqFluxEstimator({}, <<>>, 2)
    /\ \E w \in 1..MaxKernelWidth : tsm = [kernel_width |-> w]
    /\ \E rows \in 2..MaxSide, cols \in 2..MaxSide :
          mapds = CutoutDataset(<<rows, cols>>)
    /\ pc = "cutout_start"
    /\ loc = <<>>
    /\ results = <<>>
    /\ pool = NoPool
    /\ out = <<>>
    /\ err = "none"

\* the kernel, the mask and the positions of run, and the cutouts from_arrays
\* takes at every position
CutoutScan ==
    /\ pc = "cutout_start"
    /\ LET scan(kernel, mask) ==
               [kernel |-> kernel,
                mask |-> mask,
                positions |-> Positions(mapds.shape, mask),
                cutouts |->
                    [p \in {q \in Pixels(mapds.shape) : mask[q]} |->
                        [n \in {"counts", "background", "exposure"} |->
                            _extract_array(mapds[n], mapds.shape, kernel.shape, p)]]]
           with(kernel) ==
               IF ~kernel.ok
               THEN /\ pc' = "error"
                    /\ err' = "ValueError: kernel"
                    /\ UNCHANGED loc
               ELSE /\ loc' = scan([shape |-> kernel.shape, data |-> kernel.data],
                                   estimate_mask_default(mapds, kernel.shape))
                    /\ pc' = "cutouts"
                    /\ UNCHANGED err
       IN with(estimate_kernel(tsm, mapds))
    /\ UNCHANGED <<tsm, mapds, results, pool, out, est, oracle>>
    /\ UNCHANGED fitVarsIdle

SpecCutout == CutoutInit /\ [][CutoutScan]_vars

-----------------------------------------------------------------------------
(* TSMapEstimator.estimate_exposure and the models of the dataset: mapds is
   the dataset handed to estimate_exposure, loc holds the exposure it
   returns *)

MaxExposure == 3     \* exposure 1..MaxExposure in each of two pixels

ModelNames == {"background", "source", "diffuse"}

\* dataset.models: a list of at most two models
ModelLists == UNION {[1..n -> ModelNames] : n \in 0..2}

\* SkyModel(spectral_model=self.model.spectral_model,
\*          spatial_model=ConstantFluxSpatialModel())
ReferenceModel == "reference"

ExposureDatasets ==
    [shape : {<<1, 2>>},
     binsz : {1},
     exposure : [Pixels(<<1, 2>>) -> 1..MaxExposure],
     models : ModelLists]

ExposureInit ==
    /\ FitIdle
    /\ oracle = {}
    /\ est = [BrentqFluxEstimator({}, <<>>, 2) EXCEPT !.flux_ref = FluxRefInit]
    /\ tsm = <<>>
    /\ mapds \in ExposureDatasets
    /\ pc = "estimate_exposure"
    /\ loc = <<>>
    /\ results = <<>>
    /\ pool = NoPool
    /\ out = <<>>
    /\ err = "none"

\* dataset.models = [model]
install_reference(ds) == [ds EXCEPT !.models = <<ReferenceModel>>]

\* exposure = self.estimate_exposure(dataset), dataset.npred() returning
EstimateExposure ==
    /\ pc = "estimate_exposure"
    /\ LET restore(models, installed) ==
               /\ loc' = [exposure |-> estimate_exposure(installed)]
               /\ mapds' = [installed EXCEPT !.models = models]
       IN restore(mapds.models, install_reference(mapds))
    /\ est' = [est EXCEPT !.flux_ref = FluxRef]
    /\ pc' = "exposure"
    /\ UNCHANGED <<tsm, results, pool, out, err, oracle>>
    /\ UNCHANGED fitVarsIdle

\* exposure = self.estimate_exposure(dataset), dataset.npred() raising
EstimateExposureRaise ==
    /\ pc = "estimate_exposure"
    /\ mapds' = install_reference(mapds)
    /\ est' = [est EXCEPT !.flux_ref = FluxRef]
    /\ pc' = "error"
    /\ err' = "Exception: npred"
    /\ UNCHANGED <<tsm, loc, results, pool, out, oracle>>
    /\ UNCHANGED fitVarsIdle

ExposureNext == EstimateExposure \/ EstimateExposureRaise

SpecExposure == ExposureInit /\ [][ExposureNext]_vars

-----------------------------------------------------------------------------
(* Properties *)

Has(key) == key \in DOMAIN fit

\* BrentqFluxEstimator.run has returned
Ran == fpc = "run"

\* the run returned nan_result without calling estimate_best_fit
ShortCircuit == Ran /\ calls = <<>>

\* estimate_best_fit was executed, by run or directly
BestFitDone == fpc # "ready" /\ "estimate_best_fit" \in Range(calls)

ZeroCounts == \A i \in Bins(dataset) : dataset.counts[i] = 0

\* C3: whenever the upper-limit search converges (norm_ul is not NaN), the
\* norm_ul of the FitResult returned by BrentqFluxEstimator.run is greater
\* than or equal to the norm of the same FitResult.
C3_UlAtLeastNorm ==
    (Ran /\ Has("norm_ul") /\ ~IsNaN(fit["norm_ul"]))
        => fit["norm_ul"] >= fit["norm"]

\* C4 as stated: whenever both one-sided confidence searches converge,
\* norm_errn <= 0 <= norm_errp.
C4_SignedOffsets ==
    (Ran /\ Has("norm_errn") /\ ~IsNaN(fit["norm_errn"]) /\ ~IsNaN(fit["norm_errp"]))
        => fit["norm_errn"] <= 0 /\ 0 <= fit["norm_errp"]

\* C4 as amended: whenever both one-sided confidence searches converge,
\* norm_errn >= 0 and norm_errp >= 0: the lower confidence offset is
\* returned as the non-negative distance below the best-fit norm.
C4_ErrorsNonNegative ==
    (Ran /\ Has("norm_errn") /\ ~IsNaN(fit["norm_errn"]) /\ ~IsNaN(fit["norm_errp"]))
        => fit["norm_errn"] >= 0 /\ fit["norm_errp"] >= 0

C4_Witness ==
    /\ Ran /\ Has("norm_errn")
    /\ ~IsNaN(fit["norm_errn"]) /\ ~IsNaN(fit["norm_errp"])
    /\ fit["norm_errn"] > 0 /\ fit["norm_errp"] > 0

\* C8: with a threshold configured, a seed TS that is not above the
\* threshold (ts <= threshold) makes BrentqFluxEstimator.run omit the
\* optimizing step (no best fit, upper limit or error search); a seed TS
\* above the threshold runs the full fit.
C8_SkipWhenNotAbove ==
    (Ran /\ est.ts_threshold # <<>>)
        => IF FGreater(SeedTs(est, dataset), est.ts_threshold[1])
           THEN "estimate_best_fit" \in Range(calls)
           ELSE calls = <<>>

\* C9 as stated: when the TS pre-screening short-circuit is taken, every
\* field of the returned FitResult (niter included) is NaN.
C9_AllNaN ==
    ShortCircuit => \A k \in DOMAIN fit : IsNaN(fit[k])

\* C9 as amended: when the TS pre-screening short-circuit is taken, norm,
\* norm_err, ts and every selected optional field of the returned FitResult
\* are NaN and niter is 0.
C9_NaNExceptNiter ==
    ShortCircuit =>
        /\ {"norm", "norm_err", "ts", "niter"} \subseteq DOMAIN fit
        /\ "ul" \in est.selection_optional => Has("norm_ul")
        /\ "errn-errp" \in est.selection_optional
              => Has("norm_errn") /\ Has("norm_errp")
        /\ \A k \in DOMAIN fit \ {"niter"} : IsNaN(fit[k])
        /\ fit["niter"] = 0

C9_Witness ==
    ShortCircuit /\ Has("norm_ul") /\ Has("norm_errn") /\ est.ts_threshold # <<>>

\* C10: for a cutout whose counts are zero in every bin, estimate_best_fit
\* performs no root-finding and returns norm = norm_min_total and niter = 0.
C10_ZeroCountsFloor ==
    (BestFitDone /\ ZeroCounts)
        => /\ fit["norm"] = norm_bounds(dataset)[3]
           /\ fit["niter"] = 0
           /\ "brentq_best_fit" \notin Range(calls)

C10_Witness ==
    /\ fpc = "best_fit" /\ ZeroCounts
    /\ fit["norm"] < 0 /\ fit["niter"] = 0

\* the brentq call of estimate_best_fit on the dataset of the run
BestFitBrentq ==
    brentq("derivative", [ds |-> dataset], norm_bounds(dataset)[1],
           norm_bounds(dataset)[2], est.max_niter, "brentq_best_fit" \in oracle)

\* C11: when the best-fit root finding fails for a cutout with positive
\* total counts (no sign change in the bracket, iteration limit reached,
\* numerical failure), estimate_best_fit raises nothing: it returns its
\* result with norm = NaN and niter = max_niter.
C11_FailureIsNaN ==
    (BestFitDone /\ ~ZeroCounts /\ ~BestFitBrentq.ok)
        => /\ {"ts", "norm", "niter", "norm_err", "stat"} \subseteq DOMAIN fit
           /\ IsNaN(fit["norm"])
           /\ fit["niter"] = est.max_niter

\* the iteration limit is reached in a bracket that encloses a sign change
C11_Witness ==
    /\ fpc = "best_fit" /\ ~ZeroCounts
    /\ "brentq_best_fit" \in oracle
    /\ ~BestFitBrentq.ok
    /\ IsNaN(fit["norm"]) /\ fit["niter"] = est.max_niter

\* the arrays and the seed of a dataset
Arrays(ds) == [k \in {"counts", "background", "model", "x_guess"} |-> ds[k]]

CountsAreBackground ==
    \A i \in Bins(dataset) :
        dataset.background[i] > 0 /\ dataset.counts[i] = dataset.background[i]

\* C16: on a cutout whose counts equal its positive background in every
\* bin, norm = 0 is a root of stat_derivative, and a best fit whose root
\* finding converges returns norm 0 and ts 0.
C16_NullCutout ==
    (BestFitDone /\ CountsAreBackground /\ BestFitBrentq.ok)
        => /\ stat_derivative(dataset, 0) = 0
           /\ fit["norm"] = 0
           /\ fit["ts"] = 0

C16_Witness ==
    /\ fpc = "best_fit" /\ CountsAreBackground /\ BestFitBrentq.ok
    /\ calls = <<"estimate_best_fit", "brentq_best_fit">>
    /\ dataset.model[1] > 0
    /\ fit["norm"] = 0 /\ fit["ts"] = 0 /\ fit["stat"] = stat_sum(dataset, 0)

\* C18: a norm that estimate_best_fit returns and that is not NaN (zero
\* counts, or a converged root finding) is at least norm_min_total of the
\* dataset; a root below the floor is replaced by the floor.
C18_NormAtLeastFloor ==
    BestFitDone =>
        /\ ~IsNaN(fit["norm"]) => fit["norm"] >= norm_bounds(dataset)[3]
        /\ (~ZeroCounts /\ BestFitBrentq.ok)
              => fit["norm"] = Max(BestFitBrentq.root, norm_bounds(dataset)[3])

\* a converged root below the floor
C18_Witness ==
    /\ BestFitDone /\ ~ZeroCounts /\ BestFitBrentq.ok
    /\ BestFitBrentq.root < norm_bounds(dataset)[3]
    /\ fit["norm"] = norm_bounds(dataset)[3]

\* C19: estimate_best_fit returns ts = sign(norm) * (stat_sum(0) -
\* stat_sum(norm)) at the norm it returns: ts is negative when norm is
\* negative, 0 when norm is 0 and NaN when norm is NaN.
C19_SignedTs ==
    BestFitDone =>
        /\ fit["stat"] = stat_sum(dataset, fit["norm"])
        /\ IsNaN(fit["norm"]) => IsNaN(fit["ts"])
        /\ ~IsNaN(fit["norm"])
              => /\ fit["ts"] = Sign(fit["norm"])
                                  * (stat_sum(dataset, 0) - stat_sum(dataset, fit["norm"]))
                 /\ fit["norm"] < 0 => fit["ts"] < 0
                 /\ fit["norm"] = 0 => fit["ts"] = 0

\* a converged root below zero
C19_Witness ==
    /\ fpc = "best_fit" /\ ~ZeroCounts /\ BestFitBrentq.ok
    /\ fit["norm"] < 0 /\ fit["norm"] = BestFitBrentq.root
    /\ fit["ts"] < 0
    /\ fit["ts"] = stat_sum(dataset, fit["norm"]) - stat_sum(dataset, 0)

\* the searches of run: <<key of the result, n_sigma, positive, brentq call>>
Searches ==
    {<<"norm_ul", est.n_sigma_ul, TRUE, "brentq_ul">>,
     <<"norm_errn", est.n_sigma, FALSE, "brentq_errn">>,
     <<"norm_errp", est.n_sigma, TRUE, "brentq_errp">>}

\* the ends of the bracket of a search around the best fit
BracketMin(positive) ==
    IF positive THEN fit["norm"] ELSE FSub(fit["norm"], FScale(fit["norm_err"], 100))

BracketMax(positive) ==
    IF positive THEN FAdd(fit["norm"], FScale(fit["norm_err"], 100)) ELSE fit["norm"]

\* brentq of a search of the returned result
ConfidenceBrentq(s) ==
    brentq("ts_diff", [ds |-> dataset, stat_best |-> fit["stat"], n_sigma |-> s[2]],
           BracketMin(s[3]), BracketMax(s[3]), est.max_niter, s[4] \in oracle)

\* C21: _confidence never raises: every search that run starts leaves its
\* key in the result. A converged search found, inside the bracket
\* [norm, norm + 100 * norm_err] (upper side) or [norm - 100 * norm_err, norm]
\* (lower side), the norm at which stat_sum equals the best-fit stat plus
\* n_sigma squared, and the magnitude of the returned offset is at most
\* 100 * norm_err; a search without a sign change in its bracket, or that
\* reaches the iteration limit, returns NaN.
C21_ConfidenceInBracket ==
    (Ran /\ ~ShortCircuit) =>
        \A s \in Searches :
            (s[4] \in Range(calls)) =>
                /\ Has(s[1])
                /\ LET check(r) ==
                           IF r.ok
                           THEN /\ BracketMin(s[3]) <= r.root /\ r.root <= BracketMax(s[3])
                                /\ fit[s[1]] = Abs(r.root - fit["norm"])
                                /\ fit[s[1]] <= 100 * fit["norm_err"]
                           ELSE IsNaN(fit[s[1]])
                   IN check(ConfidenceBrentq(s))

\* a run whose upper search converges and whose lower search reaches the
\* iteration limit
C21_Witness ==
    /\ Ran /\ {"norm_ul", "norm_errn", "norm_errp"} \subseteq DOMAIN fit
    /\ "brentq_errn" \in oracle /\ "brentq_errp" \notin oracle
    /\ IsFinite(fit["norm_err"]) /\ fit["norm_err"] > 0
    /\ ConfidenceBrentq(<<"norm_errp", est.n_sigma, TRUE, "brentq_errp">>).ok
    /\ fit["norm_errp"] > 0 /\ fit["norm_errp"] <= 100 * fit["norm_err"]
    /\ ~ConfidenceBrentq(<<"norm_errn", est.n_sigma, FALSE, "brentq_errn">>).ok
    /\ IsNaN(fit["norm_errn"])

\* the keys the scatter of TSMapEstimator.run reads from a result
ScatterKeys ==
    {NormKey(RunNames(est.selection_optional)[k]) :
        k \in DOMAIN RunNames(est.selection_optional)}

\* C24: on every path of BrentqFluxEstimator.run (threshold short-circuit,
\* zero counts, failed root finding, converged fit) the returned dict holds
\* ts, norm, niter and norm_err, norm_errp and norm_errn when "errn-errp" is
\* selected and norm_ul when "ul" is selected: every key the scatter of
\* TSMapEstimator.run reads.
C24_KeysOnEveryPath ==
    Ran =>
        /\ {"ts", "norm", "niter", "norm_err"} \subseteq DOMAIN fit
        /\ ("errn-errp" \in est.selection_optional)
              => {"norm_errp", "norm_errn"} \subseteq DOMAIN fit
        /\ ("ul" \in est.selection_optional) => "norm_ul" \in DOMAIN fit
        /\ ScatterKeys \subseteq DOMAIN fit

\* the short-circuit of a run with both optional steps selected
C24_Witness ==
    /\ ShortCircuit
    /\ est.selection_optional = {"errn-errp", "ul"}
    /\ ScatterKeys = {"ts", "norm", "niter", "norm_err", "norm_errp", "norm_errn", "norm_ul"}
    /\ ScatterKeys \subseteq DOMAIN fit

-----------------------------------------------------------------------------
(* Properties of TSMapEstimator.run *)

\* run has returned its dict of maps
Returned == pc = "done"

\* run has ended after the scan of the positions, by return or by exception
ScanEnded == pc \in {"done", "error"} /\ err # "ValueError: kernel"

\* what run returns or raises with n_jobs=None for the arrays of this run:
\* results = list(map(wrap, positions)), then the maps
SequentialOutcome ==
    Assemble(mapds.shape, tsm.selection_optional, est.flux_ref, loc.positions,
             [k \in 1..Len(loc.positions) |-> loc.wrap[loc.positions[k]]])

\* C1: for the same dataset and configuration, run with a pool of n_jobs >= 1
\* workers ends as run with n_jobs=None does: the same exception, or the
\* same value at every pixel of every output map, whatever the order in
\* which the workers complete their tasks; until then every result that has
\* arrived is the result of the position at its place.
C1_PoolAsSequential ==
    /\ (pc = "pool_map")
           => \A k \in DOMAIN results :
                  IsPending(results[k]) \/ results[k] = loc.wrap[loc.positions[k]]
    /\ (ScanEnded /\ tsm.n_jobs # <<>>)
           => /\ pool.state = "joined"
              /\ err = SequentialOutcome.err
              /\ out = SequentialOutcome.out

\* a pool run has returned maps of two positions with different results, the
\* second completed first
C1_Witness ==
    /\ Returned /\ tsm.n_jobs = <<2>> /\ pool.state = "joined"
    /\ pool.done = <<2, 1>>
    /\ results[1] # results[2]
    /\ out["ts"][loc.positions[1]] # out["ts"][loc.positions[2]]

\* C2: when the evaluation mask is false at every pixel (no position is
\* dispatched), run completes without raising and every returned output map
\* is NaN at every pixel.
C2_EmptyMaskAllNaN ==
    (ScanEnded /\ loc.positions = <<>>)
        => /\ err = "none"
           /\ Returned
           /\ \A n \in DOMAIN out : \A p \in Pixels(mapds.shape) : IsNaN(out[n][p])

\* the optional steps selected by the selection_optional argument
Selected(step) == step \in tsm.selection_raw \/ tsm.selection_raw = {"all"}

\* C7: a run that returns, returns the maps ts, sqrt_ts, flux, flux_err and
\* niter, flux_errp and flux_errn exactly when "errn-errp" is selected and
\* flux_ul exactly when "ul" is selected; with selection_optional="all" all
\* three are returned, and every per-pixel result holds norm_errp, norm_errn
\* and norm_ul exactly when their step is selected.
C7_ReturnedMaps ==
    Returned =>
        /\ {"ts", "sqrt_ts", "flux", "flux_err", "niter"} \subseteq DOMAIN out
        /\ DOMAIN out \subseteq {"ts", "sqrt_ts", "flux", "flux_err", "niter",
                                 "flux_errp", "flux_errn", "flux_ul"}
        /\ ("flux_errp" \in DOMAIN out <=> Selected("errn-errp"))
        /\ ("flux_errn" \in DOMAIN out <=> Selected("errn-errp"))
        /\ ("flux_ul" \in DOMAIN out <=> Selected("ul"))
        /\ \A k \in DOMAIN results :
               /\ ("norm_errp" \in DOMAIN results[k] <=> Selected("errn-errp"))
               /\ ("norm_errn" \in DOMAIN results[k] <=> Selected("errn-errp"))
               /\ ("norm_ul" \in DOMAIN results[k] <=> Selected("ul"))

\* a run with selection_optional="all" has returned the three optional maps
C7_Witness ==
    /\ Returned /\ tsm.selection_raw = {"all"}
    /\ {"flux_errp", "flux_errn", "flux_ul"} \subseteq DOMAIN out
    /\ \E k \in DOMAIN results : ~IsNaN(results[k]["norm_ul"])

-----------------------------------------------------------------------------
(* Properties of estimate_sqrt_ts *)

\* r, in units of 1/SqrtScale, is the square root of t, in units of
\* 1/StatScale, to the last digit of the grid
SquareIs(r, t) ==
    LET n == t * ((SqrtScale * SqrtScale) \div StatScale)
    IN IF t = Inf THEN r = Inf ELSE r * r <= n /\ n < (r + 1) * (r + 1)

\* C5: for every pixel with a non-NaN ts, sqrt_ts has the sign of ts
\* (negative when ts < 0, non-negative otherwise) and its square is |ts|; a
\* NaN ts yields a NaN sqrt_ts.
C5_SignedSquareRoot ==
    Returned =>
        \A p \in DOMAIN out["ts"] :
            LET ts == out["ts"][p]
                sqrt_ts == out["sqrt_ts"][p]
            IN IF IsNaN(ts) THEN IsNaN(sqrt_ts)
               ELSE /\ ~IsNaN(sqrt_ts)
                    /\ (ts < 0 => sqrt_ts < 0)
                    /\ (ts >= 0 => sqrt_ts >= 0)
                    /\ SquareIs(Abs(sqrt_ts), Abs(ts))

\* a map with a negative ts in one pixel and a NaN ts in the other
C5_Witness ==
    /\ Returned
    /\ \E p, q \in DOMAIN out["ts"] :
           /\ out["ts"][p] = -(StatScale \div 4) /\ out["sqrt_ts"][p] = -(SqrtScale \div 2)
           /\ IsNaN(out["ts"][q]) /\ IsNaN(out["sqrt_ts"][q])

-----------------------------------------------------------------------------
(* Properties of the geometry of the returned maps *)

\* C6: every map run returns (ts, sqrt_ts, flux, flux_err, niter and the
\* optional ones) has the shape of the input counts map; with a downsampling
\* factor configured every returned map, sqrt_ts included, is upsampled back
\* and has the padding cropped off.
C6_SameShape ==
    Returned => \A n \in DOMAIN out : out[n] = mapds.shape

\* kernel width plus one bin, and the map width along axis a, in half
\* pixels of the map
KernelPlusBin == tsm.kernel_width + 2 * mapds.binsz

MapWidth(a) == 2 * mapds.shape[a] * mapds.binsz

\* C12: run raises the ValueError of estimate_kernel exactly when the kernel
\* width plus one bin is not strictly smaller than the map width on every
\* spatial axis; it is raised before any pixel fit is dispatched and the
\* run returns no output map.
C12_KernelTooWide ==
    (pc # "start")
        => /\ (err = "ValueError: kernel") <=> ~(\A a \in 1..2 : KernelPlusBin < MapWidth(a))
           /\ (err = "ValueError: kernel")
                 => /\ pc = "error"
                    /\ out = <<>>
                    /\ results = <<>>
                    /\ loc = <<>>
                    /\ pool = NoPool

\* the kernel plus one bin is exactly as wide as the map is high
C12_Witness ==
    /\ pc = "error" /\ err = "ValueError: kernel" /\ out = <<>>
    /\ KernelPlusBin = MapWidth(1)
    /\ \A a \in 1..2 : tsm.kernel_width < MapWidth(a)

\* run has ended: it returned or an exception left it
Exited == pc \in {"done", "error"}

\* C13: with n_jobs not None the pool is created inside the run call and on
\* every exit path of run, the one where a task raises out of pool.map
\* included, it is released with its workers joined or terminated.
C13_PoolReleased ==
    /\ (pc = "start") => pool = NoPool
    /\ (Exited /\ pool # NoPool) => pool.state \in {"joined", "terminated"}

\* the value the field of a FitResult has in the map of that name
MapValue(name, result) ==
    IF IsFluxName(name) THEN FScale(result[NormKey(name)], est.flux_ref)
    ELSE result[NormKey(name)]

\* C14: in a run that returns, the positions are the pixels of the mask,
\* each processed exactly once (a failed root finding is not retried and
\* stops no other position); the FitResult of position p is written to
\* pixel p of every map and nowhere else, and every pixel outside the mask
\* is NaN in every map; a failed root finding leaves NaN only in the fields
\* of its own pixel.
C14_ScatterByPosition ==
    Returned =>
        /\ Range(loc.positions) = {p \in Pixels(mapds.shape) : loc.mask[p]}
        /\ Len(loc.positions) = Cardinality(Range(loc.positions))
        /\ Len(results) = Len(loc.positions)
        /\ \A k \in DOMAIN results : results[k] = loc.wrap[loc.positions[k]]
        /\ tsm.n_jobs # <<>>
              => /\ Len(pool.done) = Len(loc.positions)
                 /\ Range(pool.done) = DOMAIN loc.positions
        /\ \A n \in DOMAIN out \ {"sqrt_ts"} : \A p \in Pixels(mapds.shape) :
              IF loc.mask[p]
              THEN \E k \in DOMAIN results :
                      /\ loc.positions[k] = p
                      /\ out[n][p] = MapValue(n, results[k])
              ELSE IsNaN(out[n][p])
        /\ \A p \in Pixels(mapds.shape) : ~loc.mask[p] => IsNaN(out["sqrt_ts"][p])

\* the upper limit search fails at the first position and converges at the
\* second: flux_ul is NaN at the first pixel only and ts is NaN at neither
C14_Witness ==
    /\ Returned /\ tsm.n_jobs = <<2>> /\ Len(loc.positions) = 2
    /\ "flux_ul" \in DOMAIN out
    /\ IsNaN(results[1]["norm_ul"]) /\ ~IsNaN(results[1]["ts"])
    /\ ~IsNaN(results[2]["norm_ul"])
    /\ IsNaN(out["flux_ul"][loc.positions[1]])
    /\ ~IsNaN(out["ts"][loc.positions[1]])
    /\ ~IsNaN(out["flux_ul"][loc.positions[2]])
    /\ out["ts"][loc.positions[1]] # out["ts"][loc.positions[2]]


\* pixel p is at least h pixels away from every edge of the map
AwayFromEdges(p, h) ==
    \A a \in 1..2 : p[a] >= h /\ p[a] <= mapds.shape[a] - 1 - h

\* C20: for every odd kernel size k >= 1 and every map larger than the
\* kernel, estimate_mask_default is true at a pixel exactly when the pixel is
\* at least k // 2 pixels from every edge of the map, the safe mask is true
\* there and the predicted background is not zero.
C20_MaskDefault ==
    (loc # <<>>)
        => \A p \in Pixels(mapds.shape) :
              loc.mask[p] <=> /\ AwayFromEdges(p, loc.kernel.shape[2] \div 2)
                              /\ mapds.mask_safe[p]
                              /\ mapds.background[p] # 0

-----------------------------------------------------------------------------
(* Properties of SafeMaskMaker.run *)

\* the method names given to the constructor
NamedMethods ==
    IF loc.methods.type = "str" THEN {loc.methods.value[1]} ELSE Range(loc.methods.value)

\* C17: SafeMaskMaker.run sets dataset.mask_safe to the logical and of the
\* masks of every method named in methods, a single name or a list of
\* names; with the default methods = "aeff-default" the aeff-default mask is
\* the safe mask.
C17_AndOfNamedMethods ==
    (pc = "mask_done")
        => /\ out = mapds
           /\ mapds.mask_safe
                 = [i \in 1..MaskBins |-> \A n \in NamedMethods : mapds.masks[n][i]]


-----------------------------------------------------------------------------
(* Properties of round_up_to_odd *)

\* C22: for every width f > 0 in pixels (kernel_width / (2 * binsz) here),
\* round_up_to_odd(f) is an odd integer n with ceil(f) <= n <= ceil(f) + 1,
\* and n = f when f is an odd integer; the kernel of estimate_kernel has odd
\* spatial dimensions.
C22_OddSize ==
    (pc = "npix") =>
        LET num == loc.kernel_width
            den == 2 * loc.binsz
            n == out.npix
        IN /\ n % 2 = 1
           /\ n * den >= num
           /\ (n - 2) * den < num
           /\ (num % den = 0 /\ (num \div den) % 2 = 1) => n * den = num
           /\ out.kernel_shape = <<1, n, n>>

\* a width of four pixels, rounded up to five
C22_Witness ==
    /\ pc = "npix"
    /\ loc.kernel_width = 4 * 2 * loc.binsz
    /\ out.npix = 5 /\ out.kernel_shape = <<1, 5, 5>>


-----------------------------------------------------------------------------
(* Properties of the cutouts *)

\* the pixels of the window of n x n pixels centred on p, in row major order
Window(p, n) ==
    [i \in 1..(n * n) |->
        <<p[1] - (n \div 2) + ((i - 1) \div n), p[2] - (n \div 2) + ((i - 1) % n)>>]

\* C23: every position the scan dispatches (mask true) is at least half the
\* kernel size away from every edge of the map, so the window _extract_array
\* takes around it lies inside the arrays: the counts, background and
\* exposure cutouts have the shape of the kernel with the pixel of the
\* position at their centre, and no slice index is negative.
C23_CutoutInside ==
    (pc = "cutouts") =>
        /\ Range(loc.positions) = DOMAIN loc.cutouts
        /\ \A p \in DOMAIN loc.cutouts :
              LET n == loc.kernel.shape[2]
              IN /\ loc.kernel.shape = <<1, n, n>>
                 /\ \A a \in 1..2 :
                       /\ p[a] - (n \div 2) >= 0
                       /\ p[a] + (n \div 2) + 1 <= mapds.shape[a]
                 /\ \A name \in {"counts", "background", "exposure"} :
                       /\ Len(loc.cutouts[p][name]) = n * n
                       /\ \A i \in 1..(n * n) :
                             /\ Window(p, n)[i] \in Pixels(mapds.shape)
                             /\ loc.cutouts[p][name][i] = mapds[name][Window(p, n)[i]]
                       /\ loc.cutouts[p][name][(n * n + 1) \div 2] = mapds[name][p]

\* a kernel of 3 x 3 pixels with positions next to every edge of the map
C23_Witness ==
    /\ pc = "cutouts"
    /\ loc.kernel.shape = <<1, 3, 3>>
    /\ mapds.shape = <<4, 5>>
    /\ Range(loc.positions) = {<<1, 1>>, <<1, 2>>, <<1, 3>>, <<2, 1>>, <<2, 2>>, <<2, 3>>}
    /\ loc.cutouts[<<2, 3>>]["counts"] = <<7, 8, 9, 12, 13, 14, 17, 18, 19>>


-----------------------------------------------------------------------------
(* Properties of estimate_exposure *)

\* C25: estimate_exposure leaves dataset.models equal to its value before
\* the call on every exit path, normal or exceptional: the reference model
\* it installs to compute npred is never left installed on the dataset of
\* the caller.
C25_ModelsRestored ==
    [][(pc = "estimate_exposure" /\ pc' \in {"exposure", "error"})
          => mapds'.models = mapds.models]_vars

=============================================================================
